---- MODULE Spec2Model ----
(***************************************************************************)
(* A model of the two scripts of the repository:                           *)
(*   src/semver.py          the semantic-version release workflow          *)
(*   src/generate-config.py the server configuration generator             *)
(*                                                                         *)
(* Version strings and tag names are sequences of one-character strings,   *)
(* so that the regular expression, int() and the f-string formatting of    *)
(* semver.py are computed and not assumed.  Commit messages are sequences  *)
(* of tokens ("feat", "!", ":", "BREAKING CHANGE", "\n", ...).             *)
(***************************************************************************)
EXTENDS Integers, Sequences, FiniteSets, TLC

VARIABLES
    \* ---- semver.py: the repository and the hosting platform
    head,             \* number of commits on the branch (commit ids 1..head)
    msgs,             \* msgs[c]: stdout of `git show -s --format=%s%n%b c`
    localTags,        \* tag name -> commit it points to (the working clone)
    remoteTags,       \* tag names pushed to origin
    zips,             \* version -> "partial" | "complete" (zip files on disk)
    releases,         \* version -> number of releases published for it
    \* ---- semver.py: main()'s position and locals
    pc,               \* "idle" | "tag" | "zip" | "release"
    current_version,
    commits,
    bump,
    new_version,
    zip_filename,
    outcome,          \* how the latest run of main() ended (or "running")
    listOk,           \* whether `git tag -l` succeeded in the latest run
    tagExisted,       \* whether new_version was a tag when `git tag` ran
    tagged, pushed, zipped, released,   \* steps the latest run completed
    created,          \* tags created by the workflow, in order
    unreadable,       \* commits whose `git show` failed in the latest run
    failures,         \* external commands that have failed so far
    \* ---- generate-config.py: the files and the latest run
    defaultsFile,     \* server-config.yaml: Missing or a YAML document
    outFile,          \* serverconfig.json: Absent or its content
    backupFile,       \* serverconfig.json.backup: Absent or its content
    cfgRun            \* record of the latest run of VintageStoryConfig

relVars == <<head, msgs, localTags, remoteTags, zips, releases, pc,
             current_version, commits, bump, new_version, zip_filename,
             outcome, listOk, tagExisted, tagged, pushed, zipped, released,
             created, unreadable, failures>>
cfgVars == <<defaultsFile, outFile, backupFile, cfgRun>>
vars == <<relVars, cfgVars>>

\* ------------------------------------------------------------------ bounds
MaxCommits == 2

MaxFailures == 2

MaxScan == 3

(***************************************************************************)
(* Strings                                                                 *)
(***************************************************************************)
Digits == <<"0", "1", "2", "3", "4", "5", "6", "7", "8", "9">>

DigitSet == {Digits[i] : i \in 1..10}

DigitVal(c) == (CHOOSE i \in 1..10 : Digits[i] = c) - 1

\* str.split(sep) on a sequence of characters: the list of the pieces
RECURSIVE SplitFrom(_, _, _, _)
SplitFrom(s, sep, i, piece) ==
    IF i > Len(s) THEN <<piece>>
    ELSE IF s[i] = sep THEN <<piece>> \o SplitFrom(s, sep, i + 1, <<>>)
    ELSE SplitFrom(s, sep, i + 1, Append(piece, s[i]))

Split(s, sep) == SplitFrom(s, sep, 1, <<>>)

\* \d+
IsDigits(s) == Len(s) >= 1 /\ \A i \in 1..Len(s) : s[i] \in DigitSet

\* re.match(r'^\d+\.\d+\.\d+$', tag)
MatchesSemver(tag) ==
    LET parts == Split(tag, ".")
    IN  Len(parts) = 3 /\ \A i \in 1..3 : IsDigits(parts[i])

\* int(s) for a string of digits
RECURSIVE ToInt(_)
ToInt(s) ==
    IF Len(s) = 0 THEN 0
    ELSE 10 * ToInt(SubSeq(s, 1, Len(s) - 1)) + DigitVal(s[Len(s)])

\* str(n) for n >= 0
RECURSIVE IntToStr(_)
IntToStr(n) ==
    IF n < 10 THEN <<Digits[n + 1]>>
    ELSE IntToStr(n \div 10) \o <<Digits[(n % 10) + 1]>>

\* tuple(map(int, v.split('.')))
VersionKey(v) ==
    LET parts == Split(v, ".")
    IN  <<ToInt(parts[1]), ToInt(parts[2]), ToInt(parts[3])>>

\* f'{major}.{minor}.{patch}'
FormatVersion(major, minor, patch) ==
    IntToStr(major) \o <<".">> \o IntToStr(minor) \o <<".">> \o IntToStr(patch)

\* Python's comparison of two tuples of three integers
TupleLess(a, b) ==
    \/ a[1] < b[1]
    \/ a[1] = b[1] /\ a[2] < b[2]
    \/ a[1] = b[1] /\ a[2] = b[2] /\ a[3] < b[3]

\* '0.0.0' and None
ZeroVersion == <<"0", ".", "0", ".", "0">>

None == <<"None">>

(***************************************************************************)
(* git, as semver.py drives it                                             *)
(***************************************************************************)
\* Characters of the modelled tag names, in ASCII order
CharOrder == <<".">> \o Digits \o <<"v">>

CharCode(c) == CHOOSE i \in 1..Len(CharOrder) : CharOrder[i] = c

RECURSIVE StrLess(_, _)
StrLess(a, b) ==
    IF Len(a) = 0 THEN Len(b) > 0
    ELSE IF Len(b) = 0 THEN FALSE
    ELSE IF a[1] # b[1] THEN CharCode(a[1]) < CharCode(b[1])
    ELSE StrLess(Tail(a), Tail(b))

\* `git tag -l` prints the tag names sorted by name
RECURSIVE GitTagLines(_)
GitTagLines(names) ==
    IF names = {} THEN <<>>
    ELSE LET first == CHOOSE t \in names : \A u \in names \ {t} : StrLess(t, u)
         IN  <<first>> \o GitTagLines(names \ {first})

\* result.stdout.strip().split('\n'): no tag at all gives ['']
TagListOutput(names) ==
    IF names = {} THEN << <<>> >> ELSE GitTagLines(names)

InsertByKey_StringOrder(sorted, v) == Append(sorted, v)

\* list.sort(key=...): a stable sort, equal keys keep their order
RECURSIVE InsertByKey(_, _)
InsertByKey(sorted, v) ==
    IF Len(sorted) = 0 THEN <<v>>
    ELSE IF TupleLess(VersionKey(v), VersionKey(sorted[Len(sorted)]))
         THEN Append(InsertByKey(SubSeq(sorted, 1, Len(sorted) - 1), v),
                     sorted[Len(sorted)])
         ELSE Append(sorted, v)

RECURSIVE SortByVersion(_)
SortByVersion(list) ==
    IF Len(list) = 0 THEN <<>>
    ELSE InsertByKey(SortByVersion(SubSeq(list, 1, Len(list) - 1)),
                     list[Len(list)])

\* get_last_version(); listFails: `git tag -l` raises
get_last_version(names, listFails) ==
    IF listFails THEN ZeroVersion
    ELSE LET tags == TagListOutput(names)
             version_tags ==
                 SelectSeq(tags, LAMBDA tag : tag # <<>> /\ MatchesSemver(tag))
         IN  IF Len(version_tags) = 0 THEN ZeroVersion
             ELSE LET sorted == SortByVersion(version_tags)
                  IN  sorted[Len(sorted)]

\* `git rev-list a..HEAD`: the commits after a, most recent first
RevList(after, h) == [i \in 1..(h - after) |-> h + 1 - i]

\* get_commits_since_tag(tag); revFails: `git rev-list` raises.
\* `git rev-list HEAD` also fails in a repository without commits.
get_commits_since_tag(tag, tagMap, h, revFails) ==
    IF revFails THEN <<>>
    ELSE IF tag = ZeroVersion
         THEN IF h = 0 THEN <<>> ELSE RevList(0, h)
         ELSE RevList(tagMap[tag], h)

\* s.split('\n', 1) on a sequence of tokens: <<first line, the rest>>
RECURSIVE SplitFirstLine(_, _)
SplitFirstLine(s, i) ==
    IF i > Len(s) THEN <<s>>
    ELSE IF s[i] = "\n" THEN <<SubSeq(s, 1, i - 1), SubSeq(s, i + 1, Len(s))>>
    ELSE SplitFirstLine(s, i + 1)

\* get_commit_message(commit_hash) on the stdout of `git show`;
\* failed: `git show` raises and ('', '') is returned
get_commit_message(stdout, failed) ==
    IF failed THEN << <<>>, <<>> >>
    ELSE LET lines == SplitFirstLine(stdout, 1)
             subject == lines[1]
             body == IF Len(lines) > 1 THEN lines[2] ELSE <<>>
         IN  <<subject, body>>

\* needle in hay (Python's substring test)
Contains(hay, needle) ==
    \E i \in 0..(Len(hay) - Len(needle)) :
        SubSeq(hay, i + 1, i + Len(needle)) = needle

\* re.match anchors the pattern at the start of the string
StartsWith(s, prefix) ==
    Len(s) >= Len(prefix) /\ SubSeq(s, 1, Len(prefix)) = prefix

BreakingChange == <<"BREAKING CHANGE", ":">>

RECURSIVE BumpScan(_, _, _)
BumpScan_SubjectOnly(messages, i, has_minor) ==
    IF i > Len(messages) THEN <<FALSE, has_minor>>
    ELSE LET subject == messages[i][1]
         IN  IF Contains(subject, BreakingChange)
             THEN <<TRUE, has_minor>>
             ELSE IF \/ StartsWith(subject, <<"feat", "!", ":">>)
                     \/ StartsWith(subject, <<"fix", "!", ":">>)
             THEN <<TRUE, has_minor>>
             ELSE BumpScan(messages, i + 1,
                           has_minor \/ StartsWith(subject, <<"feat", ":">>))

\* The loop of determine_bump from commit i on: <<has_major, has_minor>>
BumpScan(messages, i, has_minor) ==
    IF i > Len(messages) THEN <<FALSE, has_minor>>
    ELSE LET subject == messages[i][1]
             body == messages[i][2]
         IN  IF Contains(subject, BreakingChange) \/ Contains(body, BreakingChange)
             THEN <<TRUE, has_minor>>
             ELSE IF \/ StartsWith(subject, <<"feat", "!", ":">>)
                     \/ StartsWith(subject, <<"fix", "!", ":">>)
             THEN <<TRUE, has_minor>>
             ELSE BumpScan(messages, i + 1,
                           has_minor \/ StartsWith(subject, <<"feat", ":">>))

\* determine_bump, on the messages get_commit_message returns for the commits
determine_bump(messages) ==
    LET flags == BumpScan(messages, 1, FALSE)
    IN  IF flags[1] THEN "major"
        ELSE IF flags[2] THEN "minor"
        ELSE "patch"

increment_version_KeepPatch(version, b) ==
    LET key == VersionKey(version)
    IN  IF b = "major" THEN FormatVersion(key[1] + 1, 0, 0)
        ELSE IF b = "minor" THEN FormatVersion(key[1], key[2] + 1, key[3])
        ELSE FormatVersion(key[1], key[2], key[3] + 1)

\* increment_version(version, bump)
increment_version(version, b) ==
    LET key == VersionKey(version)
    IN  IF b = "major" THEN FormatVersion(key[1] + 1, 0, 0)
        ELSE IF b = "minor" THEN FormatVersion(key[1], key[2] + 1, 0)
        ELSE FormatVersion(key[1], key[2], key[3] + 1)

determine_new_version_AlwaysFirst(current, messages) ==
    IF Len(messages) = 0 THEN None ELSE <<"0", ".", "0", ".", "1">>

\* determine_new_version(current_version, commits), with the messages of commits
determine_new_version(current, messages) ==
    IF Len(messages) = 0 THEN None
    ELSE IF current = ZeroVersion THEN <<"0", ".", "0", ".", "1">>
    ELSE increment_version(current, determine_bump(messages))

(***************************************************************************)
(* semver.py: main(), one action per step                                  *)
(***************************************************************************)
Count(failed) == IF failed THEN 1 ELSE 0

\* The messages determine_bump reads for the commits, in their order
MessagesOf(cs, stdouts, failing) ==
    [i \in 1..Len(cs) |-> get_commit_message(stdouts[cs[i]], cs[i] \in failing)]

\* Python's `not new_version`
IsFalsy(v) == v = None \/ v = <<>>

\* main(), steps 1 to 3: the version is resolved; without one main returns
Start(listFails, revFails, showFails) ==
    LET cur == get_last_version(DOMAIN localTags, listFails)
        cs == get_commits_since_tag(cur, localTags, head, revFails)
        messages == MessagesOf(cs, msgs, showFails)
        new == determine_new_version(cur, messages)
    IN  /\ pc = "idle"
        /\ failures' = failures + Count(listFails) + Count(revFails)
                                 + Cardinality(showFails)
        /\ failures' <= MaxFailures
        \* `git show` runs only for the commits determine_bump is given
        /\ showFails \subseteq (IF cur = ZeroVersion THEN {}
                                ELSE {cs[i] : i \in 1..Len(cs)})
        /\ current_version' = cur
        /\ commits' = cs
        /\ unreadable' = showFails
        /\ listOk' = ~listFails
        /\ new_version' = new
        /\ bump' = IF Len(cs) = 0 \/ cur = ZeroVersion THEN "none"
                   ELSE determine_bump(messages)
        /\ pc' = IF IsFalsy(new) THEN "idle" ELSE "tag"
        /\ outcome' = IF IsFalsy(new) THEN "no_action" ELSE "running"
        /\ zip_filename' = None
        /\ tagExisted' = FALSE
        /\ tagged' = FALSE /\ pushed' = FALSE /\ zipped' = FALSE /\ released' = FALSE
        /\ UNCHANGED <<head, msgs, localTags, remoteTags, zips, releases, created>>
        /\ UNCHANGED cfgVars

\* `git tag version`: refuses a name that is already a tag
GitTagSucceeds_Force(version, tagMap, tagFails) == ~tagFails

GitTagSucceeds(version, tagMap, tagFails) ==
    version \notin DOMAIN tagMap /\ ~tagFails

\* Where main() goes after create_git_tag: the except clause prints the
\* error and raises it again, which ends main() before create_zip
AfterCreateGitTag_Swallowed(pushOk) == "zip"

AfterCreateGitTag(pushOk) == IF pushOk THEN "zip" ELSE "idle"

\* main(), step 4: create_git_tag(new_version); a failure of either command
\* is printed and raised again, which ends main.  fails is "no", "tag"
\* (`git tag` fails for another reason than the name) or "push"
CreateGitTag(fails) ==
    LET tagOk == GitTagSucceeds(new_version, localTags, fails = "tag")
        pushOk == tagOk /\ fails # "push"
    IN  /\ pc = "tag"
        /\ failures' = failures + Count(fails # "no")
        /\ failures' <= MaxFailures
        /\ tagExisted' = (new_version \in DOMAIN localTags)
        /\ localTags' = IF tagOk THEN localTags @@ (new_version :> head)
                        ELSE localTags
        /\ created' = IF tagOk THEN Append(created, [v |-> new_version, listed |-> listOk])
                      ELSE created
        /\ tagged' = tagOk
        /\ pushed' = pushOk
        /\ remoteTags' = IF pushOk THEN remoteTags \cup {new_version} ELSE remoteTags
        /\ outcome' = IF ~tagOk THEN "tag_failed"
                      ELSE IF ~pushOk THEN "push_failed" ELSE "running"
        /\ pc' = AfterCreateGitTag(pushOk)
        /\ UNCHANGED <<head, msgs, zips, releases, current_version, commits,
                       bump, new_version, zip_filename, listOk, zipped,
                       released, unreadable>>
        /\ UNCHANGED cfgVars

\* main(), step 5: create_zip(repo_name, new_version).  When writing the
\* archive raises, the file ZipFile() opened is left behind, incomplete
CreateZip(zipFails) ==
    /\ pc = "zip"
    /\ failures' = failures + Count(zipFails)
    /\ failures' <= MaxFailures
    /\ zips' = [v \in DOMAIN zips \cup {new_version} |->
                   IF v = new_version
                   THEN IF zipFails THEN "partial" ELSE "complete"
                   ELSE zips[v]]
    /\ zip_filename' = IF zipFails THEN zip_filename ELSE new_version
    /\ zipped' = ~zipFails
    /\ outcome' = IF zipFails THEN "zip_failed" ELSE "running"
    /\ pc' = IF zipFails THEN "idle" ELSE "release"
    /\ UNCHANGED <<head, msgs, localTags, remoteTags, releases, current_version,
                   commits, bump, new_version, listOk, tagExisted, tagged,
                   pushed, released, created, unreadable>>
    /\ UNCHANGED cfgVars

\* main(), step 6: create_github_release(new_version, zip_filename)
CreateGithubRelease(ghFails) ==
    /\ pc = "release"
    /\ failures' = failures + Count(ghFails)
    /\ failures' <= MaxFailures
    /\ releases' = IF ghFails THEN releases
                   ELSE [v \in DOMAIN releases \cup {new_version} |->
                            IF v = new_version
                            THEN (IF v \in DOMAIN releases THEN releases[v] ELSE 0) + 1
                            ELSE releases[v]]
    /\ released' = ~ghFails
    /\ outcome' = IF ghFails THEN "release_failed" ELSE "complete"
    /\ pc' = "idle"
    /\ UNCHANGED <<head, msgs, localTags, remoteTags, zips, current_version,
                   commits, bump, new_version, zip_filename, listOk, tagExisted,
                   tagged, pushed, zipped, created, unreadable>>
    /\ UNCHANGED cfgVars

\* stdout of `git show -s --format=%s%n%b` for the commits of the model
MsgChore == <<"chore", ":", "x", "\n", "\n">>
MsgFeat == <<"feat", ":", "x", "\n", "\n">>
MsgFeatBang == <<"feat", "!", ":", "x", "\n", "\n">>
MsgFixBang == <<"fix", "!", ":", "x", "\n", "\n">>
MsgBodyBreaking == <<"fix", ":", "x", "\n", "y", "\n", "BREAKING CHANGE", ":", "z", "\n">>
MsgSubjectBreaking == <<"x", "BREAKING CHANGE", ":", "y", "\n", "\n">>
MsgDecoy == <<"x", "feat", ":", "BREAKING CHANGE", "y", "\n",
              "fix", "!", ":", "z", "\n", "feat", ":", "w", "\n">>

CommitMessages == {MsgChore, MsgFeat, MsgBodyBreaking}

\* A developer commits between two runs of the workflow
Commit(m) ==
    /\ pc = "idle"
    /\ head < MaxCommits
    /\ head' = head + 1
    /\ msgs' = Append(msgs, m)
    /\ UNCHANGED <<localTags, remoteTags, zips, releases, pc, current_version,
                   commits, bump, new_version, zip_filename, outcome, listOk,
                   tagExisted, tagged, pushed, zipped, released, created,
                   unreadable, failures>>
    /\ UNCHANGED cfgVars

\* Tag names a repository may hold before the workflow first runs
T120 == <<"1", ".", "2", ".", "0">>
T1100 == <<"1", ".", "1", "0", ".", "0">>
T123 == <<"1", ".", "2", ".", "3">>
T100 == <<"1", ".", "0", ".", "0">>
T0100 == <<"0", "1", ".", "0", ".", "0">>
Tv100 == <<"v", "1", ".", "0", ".", "0">>
T10 == <<"1", ".", "0">>
T1000 == <<"1", ".", "0", ".", "0", ".", "0">>
T1dd0 == <<"1", ".", ".", "0">>

InitialTagSets ==
    { {}, {T120, T1100, T123}, {Tv100, T10, T1000, T1dd0}, {T0100, T100, Tv100} }

(***************************************************************************)
(* generate-config.py: Python values, the environment, the files           *)
(***************************************************************************)
\* A Python value: kind is "none", "str", "int", "bool", "date" or "map"
PyNone == [kind |-> "none", str |-> "", map |-> <<>>]
PyStr(s) == [kind |-> "str", str |-> s, map |-> <<>>]
PyInt(s) == [kind |-> "int", str |-> s, map |-> <<>>]
PyBool(b) == [kind |-> "bool", str |-> IF b THEN "true" ELSE "false", map |-> <<>>]
PyDate(s) == [kind |-> "date", str |-> s, map |-> <<>>]
PyMap(m) == [kind |-> "map", str |-> "", map |-> m]

EmptyMap == PyMap(<<>>)

\* A file: state is "absent", "complete" or "partial" (a write that stopped)
Absent == [state |-> "absent", data |-> PyNone]
FileWith(v) == [state |-> "complete", data |-> v]
PartialFileOf(v) == [state |-> "partial", data |-> v]
Exists(f) == f.state # "absent"

\* server-config.yaml is missing
Missing == [kind |-> "missing", str |-> "", map |-> <<>>]

\* Environment variable names, cut after the prefix: "VS_CFG_" + "SERVER_NAME"
Prefix == <<"VS_CFG_">>
EnvName(rest) == <<"VS_CFG_", rest>>
ALLOW_CREATIVE_MODE == EnvName("ALLOW_CREATIVE_MODE")

\* self.env_setting_map
env_setting_map ==
    (EnvName("SERVER_NAME") :> "ServerName") @@
    (EnvName("SERVER_URL") :> "ServerUrl") @@
    (EnvName("SERVER_DESCRIPTION") :> "ServerDescription") @@
    (EnvName("WELCOME_MESSAGE") :> "WelcomeMessage") @@
    (EnvName("ALLOW_CREATIVE_MODE") :> "AllowCreativeMode") @@
    (EnvName("SERVER_IP") :> "Ip") @@
    (EnvName("SERVER_PORT") :> "Port") @@
    (EnvName("SERVER_UPNP") :> "Upnp") @@
    (EnvName("SERVER_COMPRESS_PACKETS") :> "CompressPackets") @@
    (EnvName("ADVERTISE_SERVER") :> "AdvertiseServer") @@
    (EnvName("MAX_CLIENTS") :> "MaxClients") @@
    (EnvName("PASS_TIME_WHEN_EMPTY") :> "PassTimeWhenEmpty") @@
    (EnvName("SERVER_PASSWORD") :> "Password") @@
    (EnvName("MAX_CHUNK_RADIUS") :> "MaxChunkRadius") @@
    (EnvName("SERVER_LANGUAGE") :> "ServerLanguage") @@
    (EnvName("ONLY_WHITELISTED") :> "OnlyWhitelisted") @@
    (EnvName("ANTIABUSE") :> "AntiAbuse") @@
    (EnvName("ALLOW_PVP") :> "AllowPvP") @@
    (EnvName("HOSTED_MODE") :> "HostedMode") @@
    (EnvName("HOSTED_MODE_ALLOW_MODS") :> "HostedModeAllowMods")

\* str.lower() on the raw values of the model
Lower(s) ==
    CASE s = "TRUE" -> "true"
      [] s = "True" -> "true"
      [] s = "Yes" -> "yes"
      [] s = "NO" -> "no"
      [] OTHER -> s

\* load_config(): the YAML document, None for an empty one, {} without a file
load_config(defaults) ==
    IF defaults # Missing THEN defaults ELSE EmptyMap

\* d[k] = v on a mapping
SetItem(m, k, v) == [x \in DOMAIN m \cup {k} |-> IF x = k THEN v ELSE m[x]]

\* dict.update(other)
Update(m, other) ==
    [x \in DOMAIN m \cup DOMAIN other |-> IF x \in DOMAIN other THEN other[x] ELSE m[x]]

\* os.environ.pop(name)
PopEnv(environ, name) == [x \in DOMAIN environ \ {name} |-> environ[x]]

\* The creative-mode pre-pass of generate_serverconfig (lines 56-58):
\* [raised, config, environ].  The right-hand side, the pop included, is
\* evaluated before the subscripts of the target.
CreativeModePass(config, environ) ==
    IF ALLOW_CREATIVE_MODE \notin DOMAIN environ
    THEN [raised |-> FALSE, config |-> config, environ |-> environ]
    ELSE LET value == PyBool(Lower(environ[ALLOW_CREATIVE_MODE]) \in {"1", "true", "yes"})
             rest == PopEnv(environ, ALLOW_CREATIVE_MODE)
         IN  IF \/ config.kind # "map"
                \/ "WorldConfig" \notin DOMAIN config.map
                \/ config.map["WorldConfig"].kind # "map"
             THEN [raised |-> TRUE, config |-> config, environ |-> rest]
             ELSE [raised |-> FALSE,
                   config |-> PyMap(SetItem(config.map, "WorldConfig",
                                 PyMap(SetItem(config.map["WorldConfig"].map,
                                               "AllowCreativeMode", value)))),
                   environ |-> rest]

\* The variables the dict comprehension of line 59 looks up
PrefixedNames(environ) == {k \in DOMAIN environ : StartsWith(k, Prefix)}

\* The bulk pass of generate_serverconfig (lines 59-60): [raised, config]
BulkOverridePass(config, environ) ==
    LET names == PrefixedNames(environ)
    IN  IF \E k \in names : k \notin DOMAIN env_setting_map
        THEN [raised |-> TRUE, config |-> config]
        ELSE LET overrides ==
                     [key \in {env_setting_map[k] : k \in names} |->
                         PyStr(environ[CHOOSE k \in names : env_setting_map[k] = key])]
             IN  IF config.kind # "map"
                 THEN [raised |-> TRUE, config |-> config]
                 ELSE [raised |-> FALSE, config |-> PyMap(Update(config.map, overrides))]

\* generate_serverconfig(): [raised, config]
generate_serverconfig(config, environ) ==
    LET pre == CreativeModePass(config, environ)
    IN  IF pre.raised THEN [raised |-> TRUE, config |-> pre.config]
        ELSE BulkOverridePass(pre.config, pre.environ)

\* Whether json.dump can write the value
RECURSIVE JsonSerialisable(_)
JsonSerialisable(v) ==
    IF v.kind = "map" THEN \A k \in DOMAIN v.map : JsonSerialisable(v.map[k])
    ELSE v.kind # "date"

BackupExisting_KeepOld(out, backup) ==
    IF Exists(out) THEN <<Absent, IF Exists(backup) THEN backup ELSE out>>
    ELSE <<out, backup>>

\* Lines 82-87 of run(): <<output file, backup file>> after the backup
BackupExisting(out, backup) ==
    IF Exists(out) THEN <<Absent, out>> ELSE <<out, backup>>

\* Lines 97-98: open(path, 'w') and json.dump; a value json cannot write
\* raises after the file was opened and partly written
WriteConfig(config) ==
    IF JsonSerialisable(config) THEN FileWith(config) ELSE PartialFileOf(config)

\* Lines 102-104: the summary reads three keys of the configuration
SummaryRaises(config) ==
    \E k \in {"ServerName", "Port", "MaxClients"} : k \notin DOMAIN config.map

\* VintageStoryConfig() and run(args), for one output path:
\* [exit, out, backup, step, config, generated]
run(defaults, out, backup, environ) ==
    LET loaded == load_config(defaults)
        moved == BackupExisting(out, backup)
        gen == generate_serverconfig(loaded, environ)
        written == WriteConfig(gen.config)
    IN  IF defaults = Missing
        THEN [exit |-> 1, out |-> out, backup |-> backup, step |-> "precondition",
              config |-> loaded]
        ELSE IF gen.raised
        THEN [exit |-> 1, out |-> moved[1], backup |-> moved[2], step |-> "generate",
              config |-> gen.config]
        ELSE IF written.state = "partial"
        THEN [exit |-> 1, out |-> written, backup |-> moved[2], step |-> "write",
              config |-> gen.config]
        ELSE IF SummaryRaises(gen.config)
        THEN [exit |-> 1, out |-> written, backup |-> moved[2], step |-> "summary",
              config |-> gen.config]
        ELSE [exit |-> 0, out |-> written, backup |-> moved[2], step |-> "done",
              config |-> gen.config]

\* One run of the script under an environment
Run(environ) ==
    LET r == run(defaultsFile, outFile, backupFile, environ)
    IN  /\ outFile' = r.out
        /\ backupFile' = r.backup
        /\ cfgRun' = [ran |-> TRUE, environ |-> environ, exit |-> r.exit,
                      step |-> r.step, config |-> r.config,
                      prevOut |-> outFile, prevBackup |-> backupFile]
        /\ UNCHANGED defaultsFile
        /\ UNCHANGED relVars

\* ------------------------------------------------------------ inputs
WorldDefaults == PyMap(("Seed" :> PyStr("s")) @@ ("AllowCreativeMode" :> PyBool(FALSE)))

\* {ServerName: "A", Port: 1234}
DocExample == PyMap(("ServerName" :> PyStr("A")) @@ ("Port" :> PyInt("1234")))

DocNoWorld ==
    PyMap(("ServerName" :> PyStr("A")) @@ ("Port" :> PyInt("1234")) @@
          ("MaxClients" :> PyInt("16")))

DocFull == PyMap(DocNoWorld.map @@ ("WorldConfig" :> WorldDefaults))

DocTopLevelCreative ==
    PyMap(DocFull.map @@ ("AllowCreativeMode" :> PyBool(FALSE)))

DocWithDate == PyMap(DocFull.map @@ ("StartDate" :> PyDate("2024-01-01")))

DefaultsDocuments ==
    {Missing, PyNone, EmptyMap, DocExample, DocNoWorld, DocFull,
     DocTopLevelCreative, DocWithDate}

CreativeValues == {"1", "TRUE", "Yes", "no", "on"}

\* The environments: PATH is always set, the others may be
Environments ==
    { (<<"PATH">> :> "/bin") @@ name @@ creative @@ unknown :
        name \in {<<>>, EnvName("SERVER_NAME") :> "B"},
        creative \in {<<>>} \cup {ALLOW_CREATIVE_MODE :> v : v \in CreativeValues},
        unknown \in {<<>>, EnvName("FOO") :> "x"} }

OldConfig == PyMap("ServerName" :> PyStr("Old"))
OlderConfig == PyMap("ServerName" :> PyStr("Older"))

NoRun == [ran |-> FALSE, environ |-> <<>>, exit |-> 0, step |-> "none",
          config |-> PyNone, prevOut |-> Absent, prevBackup |-> Absent]

(***************************************************************************)
(* determine_bump on its own: the commits are given in any order           *)
(***************************************************************************)
BumpMessages ==
    {MsgChore, MsgFeat, MsgFixBang, MsgFeatBang, MsgBodyBreaking,
     MsgSubjectBreaking, MsgDecoy}

\* The sequences over S of length 1 to n
SeqsUpTo(S, n) == UNION {[1..k -> S] : k \in 1..n}

\* The orders in which a history query may list the commits 1..n
Orders(n) == {f \in [1..n -> 1..n] : \A i, j \in 1..n : f[i] = f[j] => i = j}

\* determine_bump(commits) for the commits listed in some order
Classify(order) ==
    /\ commits = <<>>
    /\ commits' = order
    /\ bump' = determine_bump(MessagesOf(order, msgs, unreadable))
    /\ UNCHANGED <<head, msgs, localTags, remoteTags, zips, releases, pc,
                   current_version, new_version, zip_filename, outcome, listOk,
                   tagExisted, tagged, pushed, zipped, released, created,
                   unreadable, failures>>
    /\ UNCHANGED cfgVars

(***************************************************************************)
(* Specifications                                                          *)
(***************************************************************************)
CfgUnused ==
    /\ defaultsFile = Missing
    /\ outFile = Absent
    /\ backupFile = Absent
    /\ cfgRun = NoRun

RelUnused ==
    /\ head = 0 /\ msgs = <<>> /\ localTags = <<>> /\ remoteTags = {}
    /\ zips = <<>> /\ releases = <<>> /\ pc = "idle"
    /\ current_version = None /\ commits = <<>> /\ bump = "none"
    /\ new_version = None /\ zip_filename = None /\ outcome = "none"
    /\ listOk = TRUE /\ tagExisted = FALSE
    /\ tagged = FALSE /\ pushed = FALSE /\ zipped = FALSE /\ released = FALSE
    /\ created = <<>> /\ unreadable = {} /\ failures = 0

InitRel ==
    /\ CfgUnused
    /\ \E names \in InitialTagSets :
          /\ localTags = [t \in names |-> 1]
          /\ remoteTags = names
          /\ head = 1
          /\ msgs = <<MsgChore>>
    /\ zips = <<>>
    /\ releases = <<>>
    /\ pc = "idle"
    /\ current_version = None
    /\ commits = <<>>
    /\ bump = "none"
    /\ new_version = None
    /\ zip_filename = None
    /\ outcome = "none"
    /\ listOk = TRUE
    /\ tagExisted = FALSE
    /\ tagged = FALSE /\ pushed = FALSE /\ zipped = FALSE /\ released = FALSE
    /\ created = <<>>
    /\ unreadable = {}
    /\ failures = 0

NextRel ==
    \/ \E listFails \in BOOLEAN, revFails \in BOOLEAN, showFails \in SUBSET (1..head) :
          Start(listFails, revFails, showFails)
    \/ \E fails \in {"no", "tag", "push"} : CreateGitTag(fails)
    \/ \E zipFails \in BOOLEAN : CreateZip(zipFails)
    \/ \E ghFails \in BOOLEAN : CreateGithubRelease(ghFails)
    \/ \E m \in CommitMessages : Commit(m)

InitCfg ==
    /\ RelUnused
    /\ defaultsFile \in DefaultsDocuments
    /\ outFile \in {Absent, FileWith(OldConfig)}
    /\ backupFile \in {Absent, FileWith(OlderConfig)}
    /\ cfgRun = NoRun

NextCfg == \E environ \in Environments : Run(environ)

InitBump ==
    /\ CfgUnused
    /\ msgs \in SeqsUpTo(BumpMessages, MaxScan)
    /\ head = Len(msgs)
    /\ unreadable \in {u \in SUBSET (1..Len(msgs)) : Cardinality(u) <= 1}
    /\ localTags = <<>> /\ remoteTags = {}
    /\ zips = <<>> /\ releases = <<>> /\ pc = "idle"
    /\ current_version = None /\ commits = <<>> /\ bump = "none"
    /\ new_version = None /\ zip_filename = None /\ outcome = "none"
    /\ listOk = TRUE /\ tagExisted = FALSE
    /\ tagged = FALSE /\ pushed = FALSE /\ zipped = FALSE /\ released = FALSE
    /\ created = <<>> /\ failures = 0

NextBump == \E order \in Orders(head) : Classify(order)

\* determine_bump alone
SpecBump == InitBump /\ [][NextBump]_vars

\* The release workflow
SpecRel == InitRel /\ [][NextRel]_vars

\* The configuration generator
SpecCfg == InitCfg /\ [][NextCfg]_vars

(***************************************************************************)
(* Claims about the release workflow (SpecRel)                             *)
(***************************************************************************)
\* The tags matching ^\d+\.\d+\.\d+$, said without the parser of the model:
\* exactly two dots, neither first, last nor adjacent, and digits elsewhere
IsVersionName(t) ==
    LET dots == {i \in 1..Len(t) : t[i] = "."}
    IN  /\ Cardinality(dots) = 2
        /\ \A i \in 1..Len(t) : i \notin dots => t[i] \in DigitSet
        /\ 1 \notin dots /\ Len(t) \notin dots
        /\ \A i \in dots : i + 1 \notin dots

VersionTags == {t \in DOMAIN localTags : IsVersionName(t)}

\* The tags are those main() listed: it ran and has created no tag since
TagsAsListed == outcome # "none" /\ ~tagged

\* C1: the steps run in the order tag, package, publish and a failure ends
\* the run: a run that packaged had tagged and pushed, a run that published
\* had packaged, a run whose tag step failed packaged and published
\* nothing, a run whose packaging failed published nothing, and every
\* published release has its pushed tag and its complete zip.
C1_StepOrder ==
    /\ zipped => tagged /\ pushed
    /\ released => zipped
    /\ outcome \in {"tag_failed", "push_failed"} => ~zipped /\ ~released
    /\ outcome = "zip_failed" => ~released
    /\ pc = "zip" => tagged /\ pushed
    /\ pc = "release" => zipped /\ zips[new_version] = "complete"
    /\ \A v \in DOMAIN releases :
          v \in remoteTags /\ v \in DOMAIN zips /\ zips[v] = "complete"

\* A run failed at the push after an earlier run had published: the tag is
\* there, no zip of the version is
C1_Witness ==
    /\ outcome = "push_failed" /\ tagged
    /\ new_version \notin DOMAIN zips
    /\ DOMAIN releases # {}

\* C6: determine_new_version returns None without commits, "0.0.1" when the
\* current version is "0.0.0", and otherwise the current triple bumped:
\* major (M+1,0,0), minor (M,m+1,0), patch (M,m,p+1); when it returns None
\* main tags, packages and publishes nothing.
C6_NewVersion ==
    outcome # "none" =>
        /\ Len(commits) = 0 => new_version = None
        /\ Len(commits) > 0 /\ current_version = ZeroVersion
              => new_version = <<"0", ".", "0", ".", "1">>
        /\ Len(commits) > 0 /\ current_version # ZeroVersion =>
              LET old == VersionKey(current_version)
                  new == VersionKey(new_version)
              IN  /\ IsVersionName(new_version)
                  /\ bump \in {"major", "minor", "patch"}
                  /\ bump = "major" => new = <<old[1] + 1, 0, 0>>
                  /\ bump = "minor" => new = <<old[1], old[2] + 1, 0>>
                  /\ bump = "patch" => new = <<old[1], old[2], old[3] + 1>>
        /\ new_version = None =>
              /\ outcome = "no_action" /\ pc = "idle"
              /\ ~tagged /\ ~zipped /\ ~released
        /\ None \notin DOMAIN localTags \cup DOMAIN zips \cup DOMAIN releases

\* A feature commit after 0.0.1 gives 0.1.0
C6_Witness ==
    /\ current_version = <<"0", ".", "0", ".", "1">>
    /\ bump = "minor"
    /\ new_version = <<"0", ".", "1", ".", "0">>

\* C8: get_last_version returns a version tag whose numeric triple no other
\* version tag exceeds, and "0.0.0" when no tag matches or the listing fails.
C8_LastVersion ==
    TagsAsListed =>
        IF listOk /\ VersionTags # {}
        THEN /\ current_version \in VersionTags
             /\ \A t \in VersionTags :
                   ~TupleLess(VersionKey(current_version), VersionKey(t))
        ELSE current_version = ZeroVersion

\* 1.10.0 is returned although 1.2.3 is a tag
C8_Witness ==
    /\ TagsAsListed /\ listOk
    /\ current_version = T1100
    /\ T123 \in VersionTags

\* C9: a run whose version is already a tag fails at the tag step, before
\* packaging and publishing, and no version has more than one release.
C9_NoDuplicateRelease ==
    /\ tagExisted => outcome = "tag_failed" /\ ~tagged /\ ~zipped /\ ~released
    /\ \A v \in DOMAIN releases : releases[v] = 1

\* A run resolved a version that is already released and failed at the tag
C9_Witness ==
    /\ tagExisted /\ outcome = "tag_failed"
    /\ new_version \in DOMAIN releases

\* The version a run resolved exceeds every version tag
NewVersionIsHighest ==
    TagsAsListed /\ new_version # None =>
        \A t \in VersionTags : TupleLess(VersionKey(t), VersionKey(new_version))

\* C10 as claimed: when the listing succeeds the new version exceeds every
\* version tag, and over any sequence of runs the tags the workflow creates
\* are strictly increasing and none is created twice.
C10_Original ==
    /\ listOk => NewVersionIsHighest
    /\ \A i, j \in 1..Len(created) :
          i < j => TupleLess(VersionKey(created[i].v), VersionKey(created[j].v))

\* C10 amended: when the listing succeeds the new version exceeds every
\* version tag; a tag created by a run whose listing succeeded exceeds every
\* tag the workflow created before it; no tag is created twice, and a tag
\* never moves or disappears.
C10_Increasing ==
    /\ [](/\ listOk => NewVersionIsHighest
          /\ \A i, j \in 1..Len(created) :
                i < j /\ created[j].listed
                   => TupleLess(VersionKey(created[i].v), VersionKey(created[j].v))
          /\ \A i, j \in 1..Len(created) : i < j => created[i].v # created[j].v)
    /\ [][\A t \in DOMAIN localTags :
             t \in DOMAIN localTags' /\ localTags'[t] = localTags[t]]_vars

\* Two tags were created, the second by a run whose listing succeeded
C10_Witness ==
    /\ Len(created) >= 2
    /\ created[2].listed
    /\ localTags[created[2].v] > localTags[created[1].v]

(***************************************************************************)
(* Claims about determine_bump (SpecBump)                                  *)
(***************************************************************************)
\* What the rule of the claim says of each message of the model, read by
\* hand: the subject is the first line, the body is the rest
LevelOf(stdout) ==
    CASE stdout = MsgChore -> "patch"
      [] stdout = MsgFeat -> "minor"
      [] stdout = MsgFeatBang -> "major"
      [] stdout = MsgFixBang -> "major"
      [] stdout = MsgBodyBreaking -> "major"
      [] stdout = MsgSubjectBreaking -> "major"
      [] stdout = MsgDecoy -> "patch"

\* The levels of the commits; a commit that could not be read has an empty
\* subject and an empty body
Levels ==
    {IF c \in unreadable THEN "patch" ELSE LevelOf(msgs[c]) : c \in 1..Len(msgs)}

\* C7: determine_bump returns 'major' if any commit is breaking, else
\* 'minor' if any subject starts with "feat:", else 'patch', whatever the
\* order in which the commits are scanned.
C7_Bump ==
    commits # <<>> =>
        bump = IF "major" \in Levels THEN "major"
               ELSE IF "minor" \in Levels THEN "minor"
               ELSE "patch"

\* A feature commit was scanned before the breaking one, found last
C7_Witness ==
    /\ Len(commits) = 3
    /\ msgs[commits[1]] = MsgFeat
    /\ msgs[commits[2]] = MsgDecoy
    /\ msgs[commits[3]] = MsgBodyBreaking
    /\ unreadable = {}
    /\ bump = "major"

(***************************************************************************)
(* Claims about the configuration generator (SpecCfg)                      *)
(***************************************************************************)
\* The latest run got past the check of the defaults file
GenerateCalled == cfgRun.ran /\ cfgRun.step # "precondition"

\* C2: a failing run returns 1 and leaves at the output path nothing it
\* generated; without a defaults file the output and the backup are as
\* they were.
C2_NoPartialConfig ==
    cfgRun.ran =>
        /\ cfgRun.step # "done" => cfgRun.exit = 1
        /\ cfgRun.step = "precondition"
              => outFile = cfgRun.prevOut /\ backupFile = cfgRun.prevBackup
        /\ cfgRun.exit = 1 /\ cfgRun.step # "precondition" => ~Exists(outFile)

DefaultsMapping == IF defaultsFile.kind = "map" THEN defaultsFile.map ELSE <<>>

\* The variables the claim says are applied: prefixed, in the table, and not
\* the creative-mode one
AppliedNames(environ) ==
    {n \in DOMAIN environ :
        n[1] = "VS_CFG_" /\ n \in DOMAIN env_setting_map /\ n # ALLOW_CREATIVE_MODE}

\* C4: the merged configuration is the defaults with config[table[name]] set
\* to the raw value of every applied variable and every other key as in the
\* defaults; a prefixed variable that is not in the table changes nothing.
\* (Stated for the environments without the creative-mode variable.)
C4_Merge ==
    GenerateCalled /\ ALLOW_CREATIVE_MODE \notin DOMAIN cfgRun.environ =>
        LET names == AppliedNames(cfgRun.environ)
            keys == {env_setting_map[n] : n \in names}
        IN  /\ cfgRun.step # "generate"
            /\ cfgRun.config.kind = "map"
            /\ DOMAIN cfgRun.config.map = DOMAIN DefaultsMapping \cup keys
            /\ \A n \in names :
                  cfgRun.config.map[env_setting_map[n]] = PyStr(cfgRun.environ[n])
            /\ \A k \in DOMAIN DefaultsMapping \ keys :
                  cfgRun.config.map[k] = DefaultsMapping[k]

\* The raw values of the model that are "1", "true" or "yes" in lower case
TruthyValues == {"1", "TRUE", "Yes"}

\* C5: with the creative-mode variable set, a boolean is stored at
\* config["WorldConfig"]["AllowCreativeMode"], true exactly for the truthy
\* raw values, and no top-level AllowCreativeMode is added or changed.
\* (Stated for the defaults that are a mapping.)
C5_CreativeMode ==
    /\ GenerateCalled
    /\ ALLOW_CREATIVE_MODE \in DOMAIN cfgRun.environ
    /\ defaultsFile.kind = "map"
    => /\ cfgRun.config.kind = "map"
       /\ "WorldConfig" \in DOMAIN cfgRun.config.map
       /\ cfgRun.config.map["WorldConfig"].kind = "map"
       /\ "AllowCreativeMode" \in DOMAIN cfgRun.config.map["WorldConfig"].map
       /\ cfgRun.config.map["WorldConfig"].map["AllowCreativeMode"] =
             PyBool(cfgRun.environ[ALLOW_CREATIVE_MODE] \in TruthyValues)
       /\ "AllowCreativeMode" \in DOMAIN cfgRun.config.map
             <=> "AllowCreativeMode" \in DOMAIN defaultsFile.map
       /\ "AllowCreativeMode" \in DOMAIN defaultsFile.map
             => cfgRun.config.map["AllowCreativeMode"]
                   = defaultsFile.map["AllowCreativeMode"]

====
